---- MODULE Spec2Model ----
(***************************************************************************)
(* Retrieval pipeline of custom-rag-system: the chunker                    *)
(* (src/src/text_chunker.py), the in-memory vector store                   *)
(* (src/src/vector_store.py), the embedding wrapper                        *)
(* (src/src/embedding_system.py) and the orchestrator                      *)
(* (src/src/rag_pipeline.py).                                              *)
(*                                                                         *)
(* Strings are sequences of one-character strings; positions are 0-based   *)
(* as in Python, so the character at position p of s is s[p + 1].          *)
(***************************************************************************)
EXTENDS Integers, Sequences, FiniteSets, TLC

VARIABLES
    \* RAGPipeline / SimpleVectorStore
    is_initialized,   \* RAGPipeline.is_initialized
    chunks,           \* SimpleVectorStore.chunks
    embeddings,       \* SimpleVectorStore.embeddings
    metadata,         \* SimpleVectorStore.metadata
    degraded,         \* history: some initialize() took the basic-mode branch
    init_completed,   \* history: some initialize() call has returned
    last,             \* observation of the last call: arguments, provider traffic, result
    \* TextChunker._split_single_document, one loop iteration per step
    document,         \* the document being split
    chunk_size,       \* TextChunker.chunk_size
    chunk_overlap,    \* TextChunker.chunk_overlap
    start,            \* loop cursor
    doc_chunks,       \* chunks emitted so far
    windows,          \* history: the [start, end) pairs visited so far
    pc                \* "loop" while the while-loop runs, "done" after return, "idle"

vars == <<is_initialized, chunks, embeddings, metadata, degraded, init_completed, last,
          document, chunk_size, chunk_overlap, start, doc_chunks, windows, pc>>

pipeVars == <<is_initialized, chunks, embeddings, metadata, degraded, init_completed, last>>
chunkerVars == <<document, chunk_size, chunk_overlap, start, doc_chunks, windows, pc>>

-----------------------------------------------------------------------------
(* Bounds of the model *)

MaxLen == 4        \* longest document content given to the stepwise chunker
MaxCfg == 3        \* largest chunk_size / chunk_overlap given to the stepwise chunker
MaxStore == 2      \* most passages the store is let grow to
MaxK == 2          \* largest top_k
EmbDim == 2        \* dimension of the vectors (1536 in vector_store.py, scaled)
MaxSentenceLen == 8  \* longest content of the sentence-boundary runs of the chunker
MaxSentenceCfg == 5  \* largest chunk_size of the sentence-boundary runs of the chunker
MaxQuestion == 3     \* longest question given to the lexical search on its own

-----------------------------------------------------------------------------
(* Integers and sequences *)

Max2(a, b) == IF a >= b THEN a ELSE b
Min2(a, b) == IF a <= b THEN a ELSE b
SetMax(S) == CHOOSE x \in S : \A y \in S : y <= x
SetMin(S) == CHOOSE x \in S : \A y \in S : x <= y

RECURSIVE StringsUpTo(_, _)
StringsUpTo(alphabet, n) ==
    IF n = 0 THEN {<<>>}
    ELSE LET shorter == StringsUpTo(alphabet, n - 1)
         IN  shorter \cup {Append(s, c) : s \in {t \in shorter : Len(t) = n - 1}, c \in alphabet}

RECURSIVE SeqsUpTo(_, _)
SeqsUpTo(S, n) ==
    IF n = 0 THEN {<<>>}
    ELSE LET shorter == SeqsUpTo(S, n - 1)
         IN  shorter \cup {Append(s, x) : s \in {t \in shorter : Len(t) = n - 1}, x \in S}

RECURSIVE Concat(_)
Concat(ss) == IF ss = <<>> THEN <<>> ELSE Head(ss) \o Concat(Tail(ss))

-----------------------------------------------------------------------------
(* Python string operations used by the code *)

Whitespace == {" "}

\* Python's clamping of a slice bound i for a sequence of length n.
PyIndex(i, n) == IF i < 0 THEN Max2(i + n, 0) ELSE Min2(i, n)

\* s[a:b]
Slice(s, a, b) ==
    LET lo == PyIndex(a, Len(s))
        hi == PyIndex(b, Len(s))
    IN  IF lo >= hi THEN <<>> ELSE SubSeq(s, lo + 1, hi)

\* s.rfind(ch, a, b): highest position in s[a:b] holding ch, or -1
RFind(s, ch, a, b) ==
    LET lo == PyIndex(a, Len(s))
        hi == PyIndex(b, Len(s))
        found == {p \in lo..(hi - 1) : s[p + 1] = ch}
    IN  IF found = {} THEN -1 ELSE SetMax(found)

\* s.strip()
Strip(s) ==
    LET solid == {i \in 1..Len(s) : s[i] \notin Whitespace}
    IN  IF solid = {} THEN <<>> ELSE SubSeq(s, SetMin(solid), SetMax(solid))

LowerChar(c) ==
    CASE c = "A" -> "a"
      [] c = "B" -> "b"
      [] OTHER -> c

\* s.lower()
Lower(s) == [i \in 1..Len(s) |-> LowerChar(s[i])]

\* sub in s
Contains(s, sub) ==
    \E i \in 0..(Len(s) - Len(sub)) : SubSeq(s, i + 1, i + Len(sub)) = sub

\* s.split(): the maximal runs of non-whitespace characters, in order
RECURSIVE SplitFrom(_, _, _)
SplitFrom(s, i, word) ==
    IF i > Len(s) THEN (IF word = <<>> THEN <<>> ELSE <<word>>)
    ELSE IF s[i] \in Whitespace
         THEN (IF word = <<>> THEN <<>> ELSE <<word>>) \o SplitFrom(s, i + 1, <<>>)
         ELSE SplitFrom(s, i + 1, Append(word, s[i]))

Split(s) == SplitFrom(s, 1, <<>>)

-----------------------------------------------------------------------------
(* TextChunker *)

DefaultChunkSize == 1000
DefaultChunkOverlap == 200

\* The end of the window that starts at s: start + chunk_size, pulled back to
\* one past the last '.', '!' or '?' of the window when the window is not the
\* last one and that boundary lies strictly after start.
WindowEnd(content, s, size) ==
    LET end == s + size
    IN  IF end < Len(content)
        THEN LET last_period == RFind(content, ".", s, end)
                 last_exclamation == RFind(content, "!", s, end)
                 last_question == RFind(content, "?", s, end)
                 sentence_end == Max2(last_period, Max2(last_exclamation, last_question))
             IN  IF sentence_end > s THEN sentence_end + 1 ELSE end
        ELSE end

NextStartNoGuard(s, end, overlap) == end - overlap
NextStartSignSlip(s, end, overlap) == Max2(s + 1, end + overlap)
NextStartSingleStep(s, end, overlap) == s + 1

\* start = max(start + 1, end - self.chunk_overlap)
NextStart(s, end, overlap) == Max2(s + 1, end - overlap)

MakeChunk(doc, chunk_content, s, end, n) ==
    [content |-> chunk_content, source |-> doc.source, chunk_id |-> n,
     start_char |-> s, end_char |-> end, metadata |-> doc.metadata]

\* The chunks list after the body of one loop iteration at cursor s.
EmitChunk(doc, acc, s, end) ==
    LET chunk_content == Strip(Slice(doc.content, s, end))
    IN  IF chunk_content # <<>>
        THEN Append(acc, MakeChunk(doc, chunk_content, s, end, Len(acc)))
        ELSE acc

RECURSIVE SplitLoop(_, _, _, _, _)
SplitLoop(doc, size, overlap, s, acc) ==
    IF s < Len(doc.content)
    THEN LET end == WindowEnd(doc.content, s, size)
         IN  SplitLoop(doc, size, overlap, NextStart(s, end, overlap),
                       EmitChunk(doc, acc, s, end))
    ELSE acc

split_single_document(doc, size, overlap) == SplitLoop(doc, size, overlap, 0, <<>>)

split_documents(docs, size, overlap) ==
    Concat([i \in 1..Len(docs) |-> split_single_document(docs[i], size, overlap)])

-----------------------------------------------------------------------------
(* Python values of an embedding: None or a list of numbers *)

PyNone == [none |-> TRUE, v |-> <<>>]
PyList(v) == [none |-> FALSE, v |-> v]

\* `if embedding:`
Truthy(e) == ~e.none /\ e.v # <<>>

-----------------------------------------------------------------------------
(* Cosine similarity.  A similarity is kept exactly, as the record           *)
(* [num, n1, n2] standing for num / (sqrt(n1) * sqrt(n2)): the dot product   *)
(* and the two squared norms.  Within one search the query is fixed, and     *)
(* over the vectors of the model two stored vectors have equal similarity    *)
(* exactly when their (num, n2) agree, so the exact order is the order of    *)
(* the floating-point values the code compares.                              *)

RECURSIVE Dot(_, _)
Dot(a, b) == IF a = <<>> \/ b = <<>> THEN 0 ELSE Head(a) * Head(b) + Dot(Tail(a), Tail(b))

NormSq(a) == Dot(a, a)

SimZero == [num |-> 0, n1 |-> 1, n2 |-> 1]

\* SimpleVectorStore._cosine_similarity
cosine_similarity(vec1, vec2) ==
    IF NormSq(vec1) = 0 \/ NormSq(vec2) = 0
    THEN SimZero
    ELSE [num |-> Dot(vec1, vec2), n1 |-> NormSq(vec1), n2 |-> NormSq(vec2)]

Sign(x) == IF x > 0 THEN 1 ELSE IF x < 0 THEN -1 ELSE 0

\* x < y for similarities: compare sign(num) * num^2 / (n1 * n2)
SimLess(x, y) ==
    Sign(x.num) * x.num * x.num * y.n1 * y.n2 < Sign(y.num) * y.num * y.num * x.n1 * x.n2

SimPositive(x) == x.num > 0

\* The scores of the lexical search, 1.0 and 0.5, in the same representation.
ScoreOne == [num |-> 1, n1 |-> 1, n2 |-> 1]
ScoreHalf == [num |-> 1, n1 |-> 1, n2 |-> 4]

-----------------------------------------------------------------------------
(* SimpleVectorStore *)

\* [0.0] * 1536, at the dimension of the model
Placeholder == [i \in 1..EmbDim |-> 0]

RECURSIVE ZipAppend(_, _, _)
\* `for chunk, embedding in zip(chunks, embeddings)` of add_chunks
ZipAppend(store, chs, embs) ==
    IF chs = <<>> \/ embs = <<>> THEN store
    ELSE ZipAppend(
            [chunks |-> Append(store.chunks, Head(chs)),
             embeddings |-> Append(store.embeddings,
                                   IF Truthy(Head(embs)) THEN Head(embs).v ELSE Placeholder),
             metadata |-> Append(store.metadata, Head(chs).metadata)],
            Tail(chs), Tail(embs))

RECURSIVE ZipAppendTruthyOnly(_, _, _)
ZipAppendTruthyOnly(store, chs, embs) ==
    IF chs = <<>> \/ embs = <<>> THEN store
    ELSE ZipAppendTruthyOnly(
            [chunks |-> Append(store.chunks, Head(chs)),
             embeddings |-> IF Truthy(Head(embs))
                            THEN Append(store.embeddings, Head(embs).v)
                            ELSE store.embeddings,
             metadata |-> Append(store.metadata, Head(chs).metadata)],
            Tail(chs), Tail(embs))

\* add_chunks with no placeholder for a falsy embedding of the zip branch
add_chunks_no_placeholder(store, chs, embs) ==
    IF embs = <<>>
    THEN [chunks |-> store.chunks \o chs,
          embeddings |-> store.embeddings \o [i \in 1..Len(chs) |-> Placeholder],
          metadata |-> store.metadata \o [i \in 1..Len(chs) |-> chs[i].metadata]]
    ELSE ZipAppendTruthyOnly(store, chs, embs)

\* add_chunks without its basic-mode branch
add_chunks_zip_only(store, chs, embs) == ZipAppend(store, chs, embs)

\* SimpleVectorStore.add_chunks
add_chunks(store, chs, embs) ==
    IF embs = <<>>
    THEN [chunks |-> store.chunks \o chs,
          embeddings |-> store.embeddings \o [i \in 1..Len(chs) |-> Placeholder],
          metadata |-> store.metadata \o [i \in 1..Len(chs) |-> chs[i].metadata]]
    ELSE ZipAppend(store, chs, embs)

Similarities(store, query_embedding) ==
    [i \in 1..Len(store.embeddings) |-> cosine_similarity(query_embedding, store.embeddings[i])]

\* np.argsort(similarities): some ascending order of the positions; the order
\* among equal values is not fixed by the default sort kind.
Argsorts(sims) ==
    {order \in [1..Len(sims) -> 1..Len(sims)] :
        /\ \A i, j \in 1..Len(sims) : i # j => order[i] # order[j]
        /\ \A i, j \in 1..Len(sims) : i < j => ~SimLess(sims[order[j]], sims[order[i]])}

Reverse(s) == [i \in 1..Len(s) |-> s[Len(s) + 1 - i]]

\* np.argsort(similarities)[-top_k:][::-1]
TopIndices(order, top_k) == Reverse(Slice(order, 0 - top_k, Len(order)))

\* The positions search() returns, in order: top_indices with similarity > 0.
search_indices(store, query_embedding, top_k, order) ==
    IF store.embeddings = <<>> THEN <<>>
    ELSE LET similarities == Similarities(store, query_embedding)
             Relevant(idx) == SimPositive(similarities[idx])
         IN  SelectSeq(TopIndices(order, top_k), Relevant)

\* SimpleVectorStore.search: the (chunk, score) pairs
search(store, query_embedding, top_k, order) ==
    LET idxs == search_indices(store, query_embedding, top_k, order)
        similarities == Similarities(store, query_embedding)
    IN  [i \in 1..Len(idxs) |-> <<store.chunks[idxs[i]], similarities[idxs[i]]>>]

-----------------------------------------------------------------------------
(* EmbeddingSystem.  A provider outcome is what client.embeddings.create     *)
(* does for one text: it raises, or it returns an embedding (a list).        *)

ProviderRaises == [raised |-> TRUE, data |-> <<>>]
ProviderReturns(v) == [raised |-> FALSE, data |-> v]

\* EmbeddingSystem._generate_single_embedding
generate_single_embedding(outcome) ==
    IF outcome.raised THEN PyNone ELSE PyList(outcome.data)

RECURSIVE generate_embeddings(_)
\* EmbeddingSystem.generate_embeddings, given the provider's outcome for each
\* text in order: the embeddings that are truthy, in order.
generate_embeddings(outcomes) ==
    IF outcomes = <<>> THEN <<>>
    ELSE LET embedding == generate_single_embedding(Head(outcomes))
         IN  (IF Truthy(embedding) THEN <<embedding>> ELSE <<>>)
             \o generate_embeddings(Tail(outcomes))

-----------------------------------------------------------------------------
(* RAGPipeline: retrieval and answer *)

\* One element of retrieved_chunks.
Retrieved(chunk, score) ==
    [chunk |-> chunk, similarity |-> score, content |-> chunk.content, source |-> chunk.source]

\* The loop of _basic_text_search: the matches in store order, unsorted.
RECURSIVE TextMatches(_, _)
TextMatches(chs, question_lower) ==
    IF chs = <<>> THEN <<>>
    ELSE LET chunk == Head(chs)
             content_lower == Lower(chunk.content)
             words == Split(question_lower)
         IN  (IF Contains(content_lower, question_lower)
              THEN <<Retrieved(chunk, ScoreOne)>>
              ELSE IF \E w \in 1..Len(words) : Contains(content_lower, words[w])
                   THEN <<Retrieved(chunk, ScoreHalf)>>
                   ELSE <<>>)
             \o TextMatches(Tail(chs), question_lower)

\* results.sort(key=similarity, reverse=True): stable, descending
RECURSIVE InsertDescending(_, _)
InsertDescending(sorted, x) ==
    IF sorted = <<>> THEN <<x>>
    ELSE IF SimLess(Head(sorted).similarity, x.similarity)
         THEN <<x>> \o sorted
         ELSE <<Head(sorted)>> \o InsertDescending(Tail(sorted), x)

RECURSIVE SortDescending(_, _)
SortDescending(rest, sorted) ==
    IF rest = <<>> THEN sorted
    ELSE SortDescending(Tail(rest), InsertDescending(sorted, Head(rest)))

\* _basic_text_search with the content compared as stored, not lower-cased
basic_text_search_case_sensitive(chs, question, top_k) ==
    LET Same(chunk) == Contains(chunk.content, Lower(question))
        hits == SelectSeq(chs, Same)
    IN  Slice([i \in 1..Len(hits) |-> Retrieved(hits[i], ScoreOne)], 0, top_k)

\* _basic_text_search without its sort
basic_text_search_unsorted(chs, question, top_k) ==
    Slice(TextMatches(chs, Lower(question)), 0, top_k)

\* RAGPipeline._basic_text_search over the store's chunks
basic_text_search(chs, question, top_k) ==
    Slice(SortDescending(TextMatches(chs, Lower(question)), <<>>), 0, top_k)

NoInformation == <<"I couldn't find any relevant information to answer your question.">>
NothingRelevant == <<"No relevant information found.">>
ProviderAnswer == <<"<the answer-generation provider's text>">>

\* _format_basic_response without the source of each passage
format_basic_response_no_source(question, retrieved_chunks) ==
    IF retrieved_chunks = <<>> THEN NothingRelevant
    ELSE <<"Based on the available information, here's what I found about '">>
         \o question \o <<"':\n\n">>
         \o Concat([i \in 1..Len(retrieved_chunks) |->
                <<ToString(i), ".\n">> \o retrieved_chunks[i].chunk.content \o <<"\n\n">>])
         \o <<"Note: This is a basic summary.">>

\* RAGPipeline._format_basic_response
format_basic_response(question, retrieved_chunks) ==
    IF retrieved_chunks = <<>> THEN NothingRelevant
    ELSE <<"Based on the available information, here's what I found about '">>
         \o question \o <<"':\n\n">>
         \o Concat([i \in 1..Len(retrieved_chunks) |->
                <<ToString(i), ". From ">> \o retrieved_chunks[i].chunk.source \o <<":\n">>
                \o retrieved_chunks[i].chunk.content \o <<"\n\n">>])
         \o <<"Note: This is a basic summary. For a more coherent answer, please ensure your OpenAI API key is configured.">>

\* Whether generate_response calls the answer-generation provider.
GenerationAsked(retrieved_chunks) == retrieved_chunks # <<>>

\* RAGPipeline.generate_response; generation is what the provider does when
\* called: "answer" or "raise".
generate_response(question, retrieved_chunks, generation) ==
    IF retrieved_chunks = <<>> THEN NoInformation
    ELSE IF generation = "raise"
         THEN format_basic_response(question, retrieved_chunks)
         ELSE ProviderAnswer

\* The branch of query(): lexical search when no usable question embedding.
UseFallback(question_embeddings) ==
    IF question_embeddings = <<>> \/ Len(question_embeddings) = 0 THEN TRUE
    ELSE ~Truthy(question_embeddings[1])

WrapResults(search_results) ==
    [i \in 1..Len(search_results) |-> Retrieved(search_results[i][1], search_results[i][2])]

QueryVector(question_embeddings) ==
    IF question_embeddings = <<>> THEN Placeholder ELSE question_embeddings[1].v

\* query() that searches the index with a zero vector when no embedding came
Retrieval_zero_query(store, question, top_k, question_embeddings, order) ==
    LET idxs == search_indices(store, QueryVector(question_embeddings), top_k, order)
    IN  [searched |-> "vector", idxs |-> idxs,
         sources |-> WrapResults(search(store, QueryVector(question_embeddings), top_k, order))]

\* Lines 64-84 of query(): which search ran, and retrieved_chunks.
Retrieval(store, question, top_k, question_embeddings, order) ==
    IF UseFallback(question_embeddings)
    THEN [searched |-> "lexical", idxs |-> <<>>,
          sources |-> basic_text_search(store.chunks, question, top_k)]
    ELSE LET question_embedding == question_embeddings[1].v
         IN  [searched |-> "vector",
              idxs |-> search_indices(store, question_embedding, top_k, order),
              sources |-> WrapResults(search(store, question_embedding, top_k, order))]

-----------------------------------------------------------------------------
(* Idle values: the pipeline while the chunker is stepped, and conversely *)

NoCall ==
    [op |-> "none", status |-> "none", question |-> <<>>, top_k |-> 0,
     asked |-> <<>>, provided |-> <<>>, generation |-> "none",
     searched |-> "none", idxs |-> <<>>, sources |-> <<>>, response |-> <<>>,
     produced |-> <<>>, base |-> 0]

NoDocument == [content |-> <<>>, source |-> <<>>, type |-> "none",
               metadata |-> [filename |-> <<>>, size |-> 0]]

PipelineIdle ==
    /\ is_initialized = FALSE
    /\ chunks = <<>>
    /\ embeddings = <<>>
    /\ metadata = <<>>
    /\ degraded = FALSE
    /\ init_completed = FALSE
    /\ last = NoCall

ChunkerIdle ==
    /\ document = NoDocument
    /\ chunk_size = DefaultChunkSize
    /\ chunk_overlap = DefaultChunkOverlap
    /\ start = 0
    /\ doc_chunks = <<>>
    /\ windows = <<>>
    /\ pc = "idle"

-----------------------------------------------------------------------------
(* The chunker, one loop iteration per step *)

\* DocumentLoader._load_text_file: the record of one file
TextFile(name, text) ==
    [content |-> text, source |-> name, type |-> "text",
     metadata |-> [filename |-> name, size |-> Len(text)]]

ChunkAlphabet == {"a", " ", "."}

ChunkDocs ==
    {TextFile(<<"d">>, c) : c \in StringsUpTo(ChunkAlphabet, MaxLen)}

ConfigValues == (0 - 1)..MaxCfg

InitChunk ==
    /\ PipelineIdle
    /\ document \in ChunkDocs
    /\ chunk_size \in ConfigValues
    /\ chunk_overlap \in ConfigValues
    /\ start = 0
    /\ doc_chunks = <<>>
    /\ windows = <<>>
    /\ pc = "loop"

\* One pass through the body of `while start < len(content)`.
LoopIteration ==
    /\ pc = "loop"
    /\ start < Len(document.content)
    /\ LET end == WindowEnd(document.content, start, chunk_size)
       IN  /\ doc_chunks' = EmitChunk(document, doc_chunks, start, end)
           /\ windows' = Append(windows, <<start, end>>)
           /\ start' = NextStart(start, end, chunk_overlap)
    /\ UNCHANGED <<document, chunk_size, chunk_overlap, pc>>
    /\ UNCHANGED pipeVars

\* The loop condition fails: return chunks.
LoopExit ==
    /\ pc = "loop"
    /\ ~(start < Len(document.content))
    /\ pc' = "done"
    /\ UNCHANGED <<document, chunk_size, chunk_overlap, start, doc_chunks, windows>>
    /\ UNCHANGED pipeVars

NextChunk == LoopIteration \/ LoopExit

ChunkSpec == InitChunk /\ [][NextChunk]_vars

\* The configurations the spec calls valid.
ValidConfig == chunk_size >= 1 /\ 0 <= chunk_overlap /\ chunk_overlap < chunk_size

-----------------------------------------------------------------------------
(* The pipeline: initialize() and query() *)

Store == [chunks |-> chunks, embeddings |-> embeddings, metadata |-> metadata]

\* Documents the loader can return (src/src/document_loader.py is outside the
\* core; a document is content, source and metadata).
Corpus ==
    {TextFile(<<"f", "1">>, <<"a", " ", "B">>),
     TextFile(<<"f", "2">>, <<"b">>),
     TextFile(<<"f", "3">>, <<" ">>)}

\* load_documents(): the files of the data directory, in directory order
DataDirs ==
    {docs \in SeqsUpTo(Corpus, MaxStore) :
        \A i, j \in 1..Len(docs) : i # j => docs[i] # docs[j]}

Questions == {<<>>, <<"B">>, <<"b", " ", "c">>, <<"c">>}

Axis(i, sign) == [j \in 1..EmbDim |-> IF j = i THEN sign ELSE 0]
Ones == [j \in 1..EmbDim |-> 1]

\* Embeddings the provider returns.
ProviderVectors == {Axis(1, 1), Axis(1, -1), Ones}

ProviderOutcomes ==
    {ProviderRaises, ProviderReturns(<<>>)} \cup {ProviderReturns(v) : v \in ProviderVectors}

GenerationOutcomes == {"answer", "raise"}

\* Lines 33-39 of initialize(): zip(chunks, embeddings), keeping truthy embeddings.
RECURSIVE ValidPairs(_, _)
ValidPairs(chs, embs) ==
    IF chs = <<>> \/ embs = <<>> THEN [chunks |-> <<>>, embeddings |-> <<>>]
    ELSE LET rest == ValidPairs(Tail(chs), Tail(embs))
         IN  IF Truthy(Head(embs))
             THEN [chunks |-> <<Head(chs)>> \o rest.chunks,
                   embeddings |-> <<Head(embs)>> \o rest.embeddings]
             ELSE rest

\* Whether initialize() takes the basic-mode branch (`if not valid_chunks`).
BasicMode(new_chunks, outcomes) ==
    ValidPairs(new_chunks, generate_embeddings(outcomes)).chunks = <<>>

\* The store after initialize(), given the chunks and the provider's outcome
\* for each chunk text.
initialize_store(store, new_chunks, outcomes) ==
    LET valid == ValidPairs(new_chunks, generate_embeddings(outcomes))
    IN  IF valid.chunks = <<>>
        THEN add_chunks(store, new_chunks, <<>>)
        ELSE add_chunks(store, valid.chunks, valid.embeddings)

\* Calls are made one at a time by a single caller (src/src/main.py): a call
\* starts when the caller holds no result of an earlier call.
BetweenCalls == last.op = "none"

Initialize ==
    /\ BetweenCalls
    /\ \E docs \in DataDirs :
        LET new_chunks == split_documents(docs, DefaultChunkSize, DefaultChunkOverlap)
        IN  /\ Len(chunks) + Len(new_chunks) <= MaxStore
            /\ \E outcomes \in [1..Len(new_chunks) -> ProviderOutcomes] :
                  LET after == initialize_store(Store, new_chunks, outcomes)
                  IN  /\ chunks' = after.chunks
                      /\ embeddings' = after.embeddings
                      /\ metadata' = after.metadata
                      /\ is_initialized' = TRUE
                      /\ degraded' = (degraded \/ BasicMode(new_chunks, outcomes))
                      /\ init_completed' = TRUE
                      /\ last' = [NoCall EXCEPT
                                    !.op = "initialize", !.status = "ok",
                                    !.asked = [i \in 1..Len(new_chunks) |-> new_chunks[i].content],
                                    !.provided = outcomes,
                                    !.produced = new_chunks,
                                    !.base = Len(chunks)]
    /\ UNCHANGED chunkerVars

\* query() once past the is_initialized check
query_ready(store, question, top_k, outcome, generation, order) ==
    LET question_embeddings == generate_embeddings(<<outcome>>)
        found == Retrieval(store, question, top_k, question_embeddings, order)
    IN  [NoCall EXCEPT
            !.op = "query", !.status = "ok", !.question = question, !.top_k = top_k,
            !.asked = <<question>>, !.provided = <<outcome>>,
            !.generation = IF GenerationAsked(found.sources) THEN generation ELSE "none",
            !.searched = found.searched, !.idxs = found.idxs, !.sources = found.sources,
            !.response = generate_response(question, found.sources, generation),
            !.base = Len(store.chunks)]

query_unguarded(initialized, store, question, top_k, outcome, generation, order) ==
    query_ready(store, question, top_k, outcome, generation, order)

\* RAGPipeline.query: the observation of the call
query(initialized, store, question, top_k, outcome, generation, order) ==
    IF ~initialized
    THEN [NoCall EXCEPT !.op = "query", !.status = "ValueError", !.question = question,
                        !.top_k = top_k, !.base = Len(store.chunks)]
    ELSE query_ready(store, question, top_k, outcome, generation, order)

Identity(n) == [i \in 1..n |-> i]

\* The orders argsort may produce for this call's similarities.
Orders(store, outcome) ==
    IF Truthy(generate_single_embedding(outcome))
    THEN Argsorts(Similarities(store, outcome.data))
    ELSE {Identity(Len(store.embeddings))}

Query ==
    /\ BetweenCalls
    /\ \E question \in Questions, top_k \in 0..MaxK, outcome \in ProviderOutcomes,
          generation \in GenerationOutcomes :
          \E order \in Orders(Store, outcome) :
              last' = query(is_initialized, Store, question, top_k, outcome, generation, order)
    /\ UNCHANGED <<is_initialized, chunks, embeddings, metadata, degraded, init_completed>>
    /\ UNCHANGED chunkerVars

\* The caller is done with the result of the call (the loop of main.py goes
\* round); the pipeline itself is untouched.
Return ==
    /\ ~BetweenCalls
    /\ last' = NoCall
    /\ UNCHANGED <<is_initialized, chunks, embeddings, metadata, degraded, init_completed>>
    /\ UNCHANGED chunkerVars

Init == PipelineIdle /\ ChunkerIdle

Next == Initialize \/ Query \/ Return

Spec == Init /\ [][Next]_vars

-----------------------------------------------------------------------------
(* Claims about the pipeline, checked under Spec *)

\* The provider produced a usable (non-empty) embedding.
Succeeded(outcome) == ~outcome.raised /\ outcome.data # <<>>

\* What the last initialize() appended to the store.
AddedChunks == SubSeq(chunks, last.base + 1, Len(chunks))
AddedEmbeddings == SubSeq(embeddings, last.base + 1, Len(embeddings))

\* The positions of the chunks of the last initialize() whose own embedding succeeded.
SucceededPositions ==
    LET Ok(i) == Succeeded(last.provided[i])
    IN  SelectSeq(Identity(Len(last.provided)), Ok)

\* C1: when at least one embedding succeeds, initialize() stores exactly the
\* chunks whose own embedding succeeded, in order, each with the vector the
\* provider produced for that chunk's text.
C1_StoresOwnEmbeddings ==
    (last.op = "initialize" /\ SucceededPositions # <<>>) =>
        /\ AddedChunks = [j \in 1..Len(SucceededPositions) |-> last.produced[SucceededPositions[j]]]
        /\ AddedEmbeddings =
               [j \in 1..Len(SucceededPositions) |-> last.provided[SucceededPositions[j]].data]

\* C2: a Ready query whose question embedding fails, is absent or is empty
\* returns exactly the lexical search over the stored passages and does not
\* run the vector search; with a non-empty question vector it returns exactly
\* the vector search with that vector and k.
C2_FallbackSelection ==
    (last.op = "query" /\ last.status = "ok") =>
        IF ~Succeeded(last.provided[1])
        THEN /\ last.searched = "lexical"
             /\ last.sources = basic_text_search(chunks, last.question, last.top_k)
        ELSE /\ last.searched = "vector"
             /\ \E order \in Argsorts(Similarities(Store, last.provided[1].data)) :
                    last.sources =
                        WrapResults(search(Store, last.provided[1].data, last.top_k, order))

C2_Witness ==
    /\ last.op = "query"
    /\ last.status = "ok"
    /\ last.provided[1] = ProviderReturns(<<>>)
    /\ last.searched = "lexical"
    /\ last.sources # <<>>
    /\ \E i \in 1..Len(embeddings) : embeddings[i] # Placeholder

\* C3: vector search with k >= 0 returns at most k passages: the k most
\* similar ones restricted to similarity > 0, in descending order; nothing
\* for an empty index, and never a passage of similarity <= 0.
C3_TopKPositive ==
    (last.op = "query" /\ last.searched = "vector") =>
        LET sims == Similarities(Store, last.provided[1].data)
            positive == {i \in 1..Len(sims) : SimPositive(sims[i])}
            idxs == last.idxs
            returned == {idxs[j] : j \in 1..Len(idxs)}
        IN  /\ Len(idxs) <= last.top_k
            /\ Len(idxs) = Min2(last.top_k, Cardinality(positive))
            /\ Cardinality(returned) = Len(idxs)
            /\ returned \subseteq positive
            /\ \A j \in 1..(Len(idxs) - 1) : ~SimLess(sims[idxs[j]], sims[idxs[j + 1]])
            /\ \A i \in returned, o \in positive \ returned : ~SimLess(sims[i], sims[o])
            /\ last.sources = [j \in 1..Len(idxs) |-> Retrieved(chunks[idxs[j]], sims[idxs[j]])]

\* C4: a query() before any initialize() has completed fails with the state
\* error, contacts neither provider and changes neither the store nor the
\* flag; after an initialize() has completed no query() fails with it.
C4_QueryNeedsInitialize ==
    [][(last.op = "none" /\ last'.op = "query") =>
          IF ~init_completed
          THEN /\ last'.status = "ValueError"
               /\ last'.asked = <<>>
               /\ last'.generation = "none"
               /\ last'.searched = "none"
               /\ UNCHANGED <<chunks, embeddings, metadata, is_initialized>>
          ELSE last'.status = "ok"]_vars

C4_Witness == last.op = "query" /\ last.status = "ValueError" /\ ~init_completed

\* C5: when the embedding of every chunk fails, initialize() returns
\* normally, the pipeline is Ready and all the chunks are stored in order,
\* each with the all-zero placeholder vector.
C5_AllFailedStoresAll ==
    (last.op = "initialize" /\ \A i \in 1..Len(last.provided) : ~Succeeded(last.provided[i])) =>
        /\ last.status = "ok"
        /\ is_initialized
        /\ AddedChunks = last.produced
        /\ AddedEmbeddings = [i \in 1..Len(last.produced) |-> Placeholder]
        /\ Len(embeddings) = Len(chunks)

C5_Witness ==
    /\ last.op = "initialize"
    /\ Len(last.produced) >= 2
    /\ \A i \in 1..Len(last.provided) : ~Succeeded(last.provided[i])
    /\ \E i \in 1..Len(last.provided) : last.provided[i].raised
    /\ Len(chunks) >= 2

\* The stored passages that contain the question, case-insensitively.
Containing(question) ==
    {i \in 1..Len(chunks) : Contains(Lower(chunks[i].content), Lower(question))}

LexicalHit(i) ==
    \E j \in 1..Len(last.sources) :
        /\ last.sources[j].chunk = chunks[i]
        /\ last.sources[j].similarity = ScoreOne

\* C6 as stated: after a degraded initialize(), any later query(q, k) returns
\* every stored passage containing q with score 1.0 from the lexical search,
\* provided at most k stored passages contain q.
C6_DegradedQueryFindsSubstring ==
    (degraded /\ last.op = "query" /\ last.status = "ok"
       /\ Cardinality(Containing(last.question)) <= last.top_k) =>
        \A i \in Containing(last.question) : last.searched = "lexical" /\ LexicalHit(i)

\* C6 amended: the same, for the queries whose question embedding the
\* provider does not produce (it fails, returns nothing or an empty vector).
C6_DegradedFallbackFindsSubstring ==
    (degraded /\ last.op = "query" /\ last.status = "ok"
       /\ ~Succeeded(last.provided[1])
       /\ Cardinality(Containing(last.question)) <= last.top_k) =>
        \A i \in Containing(last.question) : last.searched = "lexical" /\ LexicalHit(i)

C6_Witness ==
    /\ degraded
    /\ last.op = "query"
    /\ last.status = "ok"
    /\ ~Succeeded(last.provided[1])
    /\ last.question = <<"B">>
    /\ Cardinality(Containing(last.question)) = 2
    /\ last.top_k = 2
    /\ \A i \in Containing(last.question) : LexicalHit(i)
    /\ \E i \in Containing(last.question) : ~Contains(chunks[i].content, last.question)

\* C7: a Ready query() never fails because answer generation failed: when the
\* provider raises and passages were retrieved the answer is the templated
\* fallback and contains the source of every retrieved passage; when none
\* was retrieved the answer is the fixed no-information message.
C7_GenerationFailureFallsBack ==
    (last.op = "query" /\ init_completed) =>
        /\ last.status = "ok"
        /\ last.sources = <<>> => last.response = NoInformation
        /\ (last.sources # <<>> /\ last.generation = "raise") =>
              /\ Head(last.response) =
                     "Based on the available information, here's what I found about '"
              /\ \A j \in 1..Len(last.sources) :
                     Contains(last.response, last.sources[j].chunk.source)

C7_Witness ==
    /\ last.op = "query"
    /\ last.generation = "raise"
    /\ Len(last.sources) = 2
    /\ last.sources[1].source # last.sources[2].source

-----------------------------------------------------------------------------
(* Claims about the chunker, checked under ChunkSpec *)

Content == document.content

\* C8: for every content and every integer chunk_size and chunk_overlap
\* (chunk_overlap >= chunk_size and negative values included) each loop
\* iteration strictly increases start, and the loop runs at most len(content)
\* iterations.
C8_StrictProgress ==
    /\ [][(pc = "loop" /\ start < Len(Content)) => start' > start]_vars
    /\ [](Len(windows) <= Len(Content))

C8_Witness ==
    /\ pc = "done"
    /\ chunk_overlap >= chunk_size
    /\ Len(windows) >= 2
    /\ Len(windows) = Len(Content)

\* C9: with chunk_size >= 1 and 0 <= chunk_overlap < chunk_size the windows
\* cover [0, len(content)) without gaps: the first starts at 0, each next one
\* starts no later than the previous one's end, the last one ends at or after
\* len(content), and every non-whitespace character lies inside
\* [start_char, end_char) of an emitted passage.
C9_WindowsCover ==
    ValidConfig =>
        /\ windows # <<>> => windows[1][1] = 0
        /\ \A i \in 2..Len(windows) : windows[i][1] <= windows[i - 1][2]
        /\ pc = "done" =>
            /\ Content # <<>> => (windows # <<>> /\ windows[Len(windows)][2] >= Len(Content))
            /\ \A p \in 0..(Len(Content) - 1) :
                   Content[p + 1] \notin Whitespace =>
                       \E i \in 1..Len(doc_chunks) :
                           /\ doc_chunks[i].start_char <= p
                           /\ p < doc_chunks[i].end_char

C9_Witness ==
    /\ pc = "done"
    /\ ValidConfig
    /\ Len(windows) >= 3
    /\ Len(doc_chunks) >= 2
    /\ Len(doc_chunks) < Len(windows)
    /\ \E i \in 1..Len(windows) : windows[i][2] < windows[i][1] + chunk_size

\* C10: with chunk_size >= 1 and 0 <= chunk_overlap < chunk_size a content
\* shorter than chunk_size yields exactly one passage, or none when it is
\* empty after trimming.
C10_ShortDocumentOnePassage ==
    (pc = "done" /\ ValidConfig /\ Len(Content) < chunk_size) =>
        Len(doc_chunks) = (IF Strip(Content) = <<>> THEN 0 ELSE 1)

-----------------------------------------------------------------------------
(* The chunker on longer contents made of letters and sentence ends, with    *)
(* valid configurations only: the runs in which windows get shortened often. *)

SentenceAlphabet == {"a", "."}

SentenceDocs ==
    {TextFile(<<"d">>, c) : c \in StringsUpTo(SentenceAlphabet, MaxSentenceLen)}

InitSentence ==
    /\ PipelineIdle
    /\ document \in SentenceDocs
    /\ chunk_size \in 1..MaxSentenceCfg
    /\ chunk_overlap \in 0..(chunk_size - 1)
    /\ start = 0
    /\ doc_chunks = <<>>
    /\ windows = <<>>
    /\ pc = "loop"

SentenceSpec == InitSentence /\ [][NextChunk]_vars

CeilDiv(a, b) == (a + b - 1) \div b

IterationBound == CeilDiv(Len(Content), chunk_size - chunk_overlap) + 1

\* No window visited so far was shortened to a sentence boundary.
NoWindowShortened ==
    \A i \in 1..Len(windows) : windows[i][2] = windows[i][1] + chunk_size

\* C11 as stated: with chunk_size >= 1 and 0 <= chunk_overlap < chunk_size
\* the loop, sentence-boundary adjustment included, runs at most
\* ceil(len(content) / (chunk_size - chunk_overlap)) + 1 iterations.
C11_IterationBound ==
    ValidConfig => Len(windows) <= IterationBound

\* C11 amended: the same bound, for the runs in which the sentence-boundary
\* adjustment shortens no window.
C11_IterationBoundUnshortened ==
    (ValidConfig /\ NoWindowShortened) => Len(windows) <= IterationBound

C11_Witness ==
    /\ pc = "done"
    /\ ValidConfig
    /\ chunk_overlap > 0
    /\ NoWindowShortened
    /\ Len(windows) >= 3
    /\ Len(windows) = IterationBound - 1
    /\ \E p \in 1..Len(Content) : Content[p] = "."

-----------------------------------------------------------------------------
(* The pipeline with its store also used directly: besides initialize() and  *)
(* query(), a caller invokes vector_store.add_chunks() and                    *)
(* vector_store.search() (both public, src/src/vector_store.py).              *)

\* Chunks a caller passes to add_chunks(): chunks the chunker produces.
StoreChunks ==
    UNION {{split_documents(docs, DefaultChunkSize, DefaultChunkOverlap)[i] :
                i \in 1..Len(split_documents(docs, DefaultChunkSize, DefaultChunkOverlap))} :
           docs \in DataDirs}

\* Entries of the embeddings list a caller passes to add_chunks().
SuppliedEmbeddings == {PyNone, PyList(<<>>), PyList(Ones), PyList(Axis(1, -1))}

AddChunks ==
    /\ BetweenCalls
    /\ \E chs \in SeqsUpTo(StoreChunks, MaxStore), embs \in SeqsUpTo(SuppliedEmbeddings, MaxStore) :
        LET after == add_chunks(Store, chs, embs)
        IN  /\ Len(chunks) + Len(chs) <= MaxStore
            /\ chunks' = after.chunks
            /\ embeddings' = after.embeddings
            /\ metadata' = after.metadata
            /\ last' = [NoCall EXCEPT !.op = "add_chunks", !.status = "ok",
                                      !.produced = chs, !.provided = embs,
                                      !.base = Len(chunks)]
    /\ UNCHANGED <<is_initialized, degraded, init_completed>>
    /\ UNCHANGED chunkerVars

Search ==
    /\ BetweenCalls
    /\ \E query_embedding \in ProviderVectors, top_k \in 0..MaxK :
        \E order \in Argsorts(Similarities(Store, query_embedding)) :
            last' = [NoCall EXCEPT
                        !.op = "search", !.status = "ok", !.top_k = top_k,
                        !.searched = "vector",
                        !.idxs = search_indices(Store, query_embedding, top_k, order),
                        !.sources = search(Store, query_embedding, top_k, order),
                        !.base = Len(chunks)]
    /\ UNCHANGED <<is_initialized, chunks, embeddings, metadata, degraded, init_completed>>
    /\ UNCHANGED chunkerVars

StoreNext == Initialize \/ Query \/ AddChunks \/ Search \/ Return

StoreSpec == Init /\ [][StoreNext]_vars

\* What a call hands to the store: the passages and vectors of its
\* add_chunks() (for initialize(), the pairs it kept or, in basic mode, all
\* chunks with no vectors).
Supplied(call) ==
    IF call.op = "add_chunks"
    THEN [chunks |-> call.produced, embeddings |-> call.provided]
    ELSE IF call.op = "initialize"
    THEN LET valid == ValidPairs(call.produced, generate_embeddings(call.provided))
         IN  IF valid.chunks = <<>>
             THEN [chunks |-> call.produced, embeddings |-> <<>>]
             ELSE valid
    ELSE [chunks |-> <<>>, embeddings |-> <<>>]

\* The three lists of the store have equal length.
StoreAligned(store) ==
    /\ Len(store.chunks) = Len(store.embeddings)
    /\ Len(store.embeddings) = Len(store.metadata)

\* One call's effect on the store: the lists stay equally long, what was
\* stored stays where it was, and each added position holds a passage of the
\* call with the vector supplied at the same position or the placeholder.
StoreStep ==
    LET supplied == Supplied(last')
        old == Len(chunks)
    IN  /\ StoreAligned(Store)'
        /\ Len(chunks') >= old
        /\ SubSeq(chunks', 1, old) = chunks
        /\ SubSeq(embeddings', 1, Len(embeddings)) = embeddings
        /\ SubSeq(metadata', 1, Len(metadata)) = metadata
        /\ \A i \in (old + 1)..Len(chunks') :
              /\ i - old <= Len(supplied.chunks)
              /\ chunks'[i] = supplied.chunks[i - old]
              /\ \/ embeddings'[i] = Placeholder
                 \/ /\ i - old <= Len(supplied.embeddings)
                    /\ Truthy(supplied.embeddings[i - old])
                    /\ embeddings'[i] = supplied.embeddings[i - old].v
        /\ last'.op \in {"query", "search"} => UNCHANGED <<chunks, embeddings, metadata>>

\* C12: over any sequence of initialize(), query(), add_chunks() and search()
\* calls the passage, vector and metadata lists of the store stay equally
\* long, the vector at each position is the one supplied with its passage or
\* the all-zero placeholder, and query() and search() leave the store as it is.
C12_StoreAligned == [][StoreStep]_vars

C12_Witness ==
    /\ last.op = "add_chunks"
    /\ last.base > 0
    /\ Len(last.produced) = 1
    /\ Len(last.provided) = 2
    /\ Truthy(last.provided[1])
    /\ Len(chunks) = last.base + 1
    /\ embeddings[Len(chunks)] = last.provided[1].v
    /\ embeddings[1] = Placeholder

-----------------------------------------------------------------------------
(* _basic_text_search on its own: any question and any k over a store that   *)
(* a basic-mode initialize() filled (every vector the placeholder).          *)

LexicalCorpus ==
    {TextFile(<<"f", "1">>, <<"a", " ", "B">>),
     TextFile(<<"f", "2">>, <<"b">>),
     TextFile(<<"f", "3">>, <<"A">>),
     TextFile(<<"f", "4">>, <<"c">>)}

LexicalAlphabet == {"a", "B", " "}

LexicalQuestions == StringsUpTo(LexicalAlphabet, MaxQuestion)

EmptyStore == [chunks |-> <<>>, embeddings |-> <<>>, metadata |-> <<>>]

InitLexical ==
    /\ ChunkerIdle
    /\ \E docs \in SeqsUpTo(LexicalCorpus, MaxStore) :
        LET filled == add_chunks(EmptyStore,
                                 split_documents(docs, DefaultChunkSize, DefaultChunkOverlap),
                                 <<>>)
        IN  /\ chunks = filled.chunks
            /\ embeddings = filled.embeddings
            /\ metadata = filled.metadata
    /\ is_initialized = TRUE
    /\ degraded = TRUE
    /\ init_completed = TRUE
    /\ last = NoCall

BasicTextSearch ==
    /\ BetweenCalls
    /\ \E question \in LexicalQuestions, top_k \in 0..MaxK :
        last' = [NoCall EXCEPT
                    !.op = "basic_text_search", !.status = "ok",
                    !.question = question, !.top_k = top_k, !.searched = "text",
                    !.sources = basic_text_search(chunks, question, top_k),
                    !.base = Len(chunks)]
    /\ UNCHANGED <<is_initialized, chunks, embeddings, metadata, degraded, init_completed>>
    /\ UNCHANGED chunkerVars

LexicalNext == BasicTextSearch

LexicalSpec == InitLexical /\ [][LexicalNext]_vars

\* The whole lower-cased question is a substring of the lower-cased content.
WholeMatch(chunk, question) == Contains(Lower(chunk.content), Lower(question))

\* Some whitespace-delimited token of the lower-cased question is one.
TokenMatch(chunk, question) ==
    LET words == Split(Lower(question))
    IN  \E w \in 1..Len(words) : Contains(Lower(chunk.content), words[w])

\* C13: the lexical search returns at most k results; a returned passage has
\* score 1.0 iff the whole lower-cased question is a substring of its
\* lower-cased content and 0.5 iff it is not but some token of the question
\* is, and a passage matching neither way is not returned; the results are in
\* descending score order, in store order among equal scores; and no 0.5
\* result is returned while a 1.0 passage is left out.
C13_LexicalScoring ==
    last.op = "basic_text_search" =>
        LET res == last.sources
            q == last.question
        IN  /\ Len(res) <= last.top_k
            /\ \A i \in 1..Len(res) :
                  /\ res[i].similarity \in {ScoreOne, ScoreHalf}
                  /\ res[i].similarity = ScoreOne <=> WholeMatch(res[i].chunk, q)
                  /\ res[i].similarity = ScoreHalf <=>
                        (~WholeMatch(res[i].chunk, q) /\ TokenMatch(res[i].chunk, q))
            /\ \A i, j \in 1..Len(res) :
                  i < j => ~SimLess(res[i].similarity, res[j].similarity)
            /\ \E pos \in [1..Len(res) -> 1..Len(chunks)] :
                  /\ \A i \in 1..Len(res) : res[i].chunk = chunks[pos[i]]
                  /\ \A i, j \in 1..Len(res) :
                        (i < j /\ res[i].similarity = res[j].similarity) => pos[i] < pos[j]
                  /\ \A i, j \in 1..Len(res) : i # j => pos[i] # pos[j]
                  /\ (\E i \in 1..Len(res) : res[i].similarity = ScoreHalf) =>
                        \A c \in 1..Len(chunks) :
                            WholeMatch(chunks[c], q) => \E i \in 1..Len(res) : pos[i] = c

C13_Witness ==
    /\ last.op = "basic_text_search"
    /\ Len(chunks) = 2
    /\ last.top_k = 1
    /\ ~WholeMatch(chunks[1], last.question)
    /\ TokenMatch(chunks[1], last.question)
    /\ WholeMatch(chunks[2], last.question)
    /\ Len(Split(Lower(last.question))) = 2
    /\ last.question # Lower(last.question)
    /\ Len(last.sources) = 1
    /\ last.sources[1].chunk = chunks[2]
    /\ last.sources[1].similarity = ScoreOne

====
